---- MODULE Spec2Model ----
(***************************************************************************)
(* Model of the vertex puzzle engine: the mesh adjacency indices of        *)
(* PuzzleData (geometry/mod.rs) and the PuzzleState state machine          *)
(* (puzzle_state/mod.rs).                                                  *)
(*                                                                         *)
(* Vertices are 0 .. NumVertices-1 and triangle ids are 0-based, as in the *)
(* source.  An edge is a pair <<a, b>>.  A HashMap is a function whose     *)
(* DOMAIN is the set of keys present; a HashSet is a set; a Vec indexed by *)
(* triangle id is a function on 0 .. n-1.                                  *)
(***************************************************************************)
EXTENDS Integers, Sequences, FiniteSets, TLC

\* Number of vertex lines of the loaded mesh (vertices.len()).
NumVertices == 4

\* Cap on a vertex's permanent-edge counter (a usize the code only increments).
MaxPermCount == 6

VARIABLES
    data,                       \* the PuzzleData the state is bound to
    triangle_reqs,
    unlocked_triangles,
    connected_edges,
    connected_edges_by_vertex,
    permanent_edges_by_vertex,
    permanent_edges,
    permanent_vertices,
    panicked,                   \* an indexing panic ended the last call
    last,                       \* the last call made (and its vertex argument)
    ever_unlocked,              \* history: the triangles unlocked now or earlier
    lines,                      \* the lines handed to from_reader
    result,                     \* what from_reader returned
    event_queue,                \* EventHandler.event_queue
    last_vertex_clicked,        \* run: Option<u32>
    curr_pointer_position,      \* run: Option<(f32, f32)>
    dynamic_geometry,           \* run: the last dynamic snapshot taken
    near                        \* the last get_vertex_near call and its answer

vars == <<data, triangle_reqs, unlocked_triangles, connected_edges,
          connected_edges_by_vertex, permanent_edges_by_vertex,
          permanent_edges, permanent_vertices, panicked, last, ever_unlocked,
          lines, result, event_queue, last_vertex_clicked,
          curr_pointer_position, dynamic_geometry, near>>

\* The variables of the driver (lib.rs) and of the vertex queries.
driver == <<event_queue, last_vertex_clicked, curr_pointer_position,
            dynamic_geometry, near>>

Vertices == 0 .. (NumVertices - 1)

\* The pairs of distinct valid vertices, in either argument order.
EdgeArgs == {e \in Vertices \X Vertices : e[1] # e[2]}

----------------------------------------------------------------------------
(* HashMap helpers *)

EmptyMap == [k \in {} |-> 0]

MapPut(m, k, v) == [x \in (DOMAIN m) \cup {k} |-> IF x = k THEN v ELSE m[x]]

----------------------------------------------------------------------------
(* PuzzleData: adjacency construction and queries *)

Min2(a, b) == IF a < b THEN a ELSE b
Max2(a, b) == IF a > b THEN a ELSE b

\* sorted = triangle_data[0..3].to_vec(); sorted.sort()
SortedVertices(tri) ==
    LET lo == Min2(tri[1], Min2(tri[2], tri[3]))
        hi == Max2(tri[1], Max2(tri[2], tri[3]))
    IN  <<lo, tri[1] + tri[2] + tri[3] - lo - hi, hi>>

\* [(sorted[0], sorted[1]), (sorted[1], sorted[2]), (sorted[0], sorted[2])]
TriangleEdges(tri) ==
    LET sorted == SortedVertices(tri)
    IN  << <<sorted[1], sorted[2]>>, <<sorted[2], sorted[3]>>, <<sorted[1], sorted[3]>> >>

\* Mutant: a later triangle replaces the edge's list instead of joining it.
PushTriangle_Overwrite(m, e, idx) == MapPut(m, e, <<idx>>)

\* edge_to_triangles.entry(e).or_insert(vec![]).push(idx)
PushTriangle(m, e, idx) ==
    IF e \in DOMAIN m THEN [m EXCEPT ![e] = Append(@, idx)]
                      ELSE MapPut(m, e, <<idx>>)

RECURSIVE BuildEdgeToTriangles(_, _, _)
BuildEdgeToTriangles(tris, idx, acc) ==
    IF idx >= Len(tris) THEN acc
    ELSE LET es == TriangleEdges(tris[idx + 1])
         IN  BuildEdgeToTriangles(tris, idx + 1,
                 PushTriangle(PushTriangle(PushTriangle(acc, es[1], idx), es[2], idx), es[3], idx))

\* triangle_to_edges.insert(idx, triangle_to_edges)
BuildTriangleToEdges(tris) ==
    [idx \in 0 .. (Len(tris) - 1) |-> TriangleEdges(tris[idx + 1])]

\* for edge in edge_to_triangles.keys(): add edge to both endpoints' sets
BuildVerticesToEdges(edges) ==
    LET touched == {e[1] : e \in edges} \cup {e[2] : e \in edges}
    IN  [v \in touched |-> {e \in edges : e[1] = v \/ e[2] = v}]

\* The PuzzleData built from nv vertex lines and the triangle lines tris.
MakeData(nv, tris) ==
    LET e2t == BuildEdgeToTriangles(tris, 0, EmptyMap)
    IN  [vertices          |-> nv,
         triangles         |-> tris,
         edge_to_triangles |-> e2t,
         triangle_to_edges |-> BuildTriangleToEdges(tris),
         vertices_to_edges |-> BuildVerticesToEdges(DOMAIN e2t)]

num_triangles(d) == Len(d.triangles)

\* Option<&Vec<usize>>: the empty sequence stands for None (no iteration)
triangles_with_edge(d, edge) ==
    IF edge \in DOMAIN d.edge_to_triangles THEN d.edge_to_triangles[edge] ELSE <<>>

num_edges_from_vertex(d, vertex) ==
    IF vertex \in DOMAIN d.vertices_to_edges
    THEN Cardinality(d.vertices_to_edges[vertex]) ELSE 0

get_edges_for_triangle(d, triangle) == d.triangle_to_edges[triangle]

----------------------------------------------------------------------------
(* PuzzleData::from_reader: the pass over the lines.  A line is the sequence *)
(* of its whitespace-separated tokens; a token is a string.  An Option or a  *)
(* parse result is a set with at most one element.                           *)

\* The decimal strings used as tokens and the numbers they denote.
NumberOf ==
    ("0" :> 0 @@ "1" :> 1 @@ "2" :> 2 @@ "3" :> 3 @@ "4" :> 4 @@
     "255" :> 255 @@ "256" :> 256)

\* s.parse::<u32>()
ParseU32(tok) == IF tok \in DOMAIN NumberOf THEN {NumberOf[tok]} ELSE {}

\* s.parse::<u8>()
ParseU8(tok) == {n \in ParseU32(tok) : n <= 255}

\* s.parse::<f32>(): an f32 is kept as a whole number of hundredths (the
\* tokens here are whole numbers)
ParseF32(tok) == IF tok \in DOMAIN NumberOf THEN {100 * NumberOf[tok]} ELSE {}

TheValue(opt) == CHOOSE x \in opt : TRUE

\* Option::None; Some(x) is {x}
None == {}

\* `out` before the first line.  A bound of the box is None while it holds
\* its initial f32::MAX (lower) or f32::MIN (upper).
EmptyOut ==
    [vertices |-> <<>>, triangles |-> <<>>, colors |-> <<>>,
     lower_bounds |-> <<None, None>>, upper_bounds |-> <<None, None>>,
     err |-> "none"]

\* if to_push.k < out.lower_bounds.k { out.lower_bounds.k = to_push.k; }
LowerTo(bound, v) == IF bound = None \/ v < TheValue(bound) THEN {v} ELSE bound

\* if to_push.k > out.upper_bounds.k { out.upper_bounds.k = to_push.k; }
RaiseTo(bound, v) == IF bound = None \/ v > TheValue(bound) THEN {v} ELSE bound

\* match arm `2 =>`
ReadVertex(out, split) ==
    IF ParseF32(split[1]) = {} \/ ParseF32(split[2]) = {}
    THEN [out EXCEPT !.err = "InvalidVertex"]
    ELSE LET to_push == <<TheValue(ParseF32(split[1])), TheValue(ParseF32(split[2]))>>
         IN  [out EXCEPT
                !.lower_bounds = <<LowerTo(@[1], to_push[1]), LowerTo(@[2], to_push[2])>>,
                !.upper_bounds = <<RaiseTo(@[1], to_push[1]), RaiseTo(@[2], to_push[2])>>,
                !.vertices = Append(@, to_push)]

\* match arm `3 =>`: each byte is stored divided by 255.0, kept as a fraction
ReadColor(out, split) ==
    IF \E k \in 1 .. 3 : ParseU8(split[k]) = {}
    THEN [out EXCEPT !.err = "InvalidColor"]
    ELSE [out EXCEPT !.colors =
              Append(@, [k \in 1 .. 3 |-> <<TheValue(ParseU8(split[k])), 255>>])]

\* Mutant: a vertex index equal to the number of vertices read is let through.
ReadTriangle_IndexOffByOne(out, split) ==
    IF \E k \in 1 .. 3 :
           \/ ParseU32(split[k]) = {}
           \/ TheValue(ParseU32(split[k])) > Len(out.vertices)
    THEN [out EXCEPT !.err = "InvalidTriangle"]
    ELSE LET triangle_indices == [k \in 1 .. 3 |-> TheValue(ParseU32(split[k]))]
             triangle_index_integrity == {triangle_indices[k] : k \in 1 .. 3}
         IN  IF Cardinality(triangle_index_integrity) < 3
             THEN [out EXCEPT !.err = "InvalidTriangle"]
             ELSE IF ParseU32(split[4]) = {}
                     \/ TheValue(ParseU32(split[4])) > Len(out.colors)
                  THEN [out EXCEPT !.err = "InvalidTriangle"]
                  ELSE [out EXCEPT !.triangles =
                            Append(@, <<triangle_indices[1], triangle_indices[2],
                                        triangle_indices[3], TheValue(ParseU32(split[4]))>>)]

\* Mutant: a color index equal to the number of colors read is rejected.
ReadTriangle_ColorBelowCount(out, split) ==
    IF \E k \in 1 .. 3 :
           \/ ParseU32(split[k]) = {}
           \/ TheValue(ParseU32(split[k])) >= Len(out.vertices)
    THEN [out EXCEPT !.err = "InvalidTriangle"]
    ELSE LET triangle_indices == [k \in 1 .. 3 |-> TheValue(ParseU32(split[k]))]
             triangle_index_integrity == {triangle_indices[k] : k \in 1 .. 3}
         IN  IF Cardinality(triangle_index_integrity) < 3
             THEN [out EXCEPT !.err = "InvalidTriangle"]
             ELSE IF ParseU32(split[4]) = {}
                     \/ TheValue(ParseU32(split[4])) >= Len(out.colors)
                  THEN [out EXCEPT !.err = "InvalidTriangle"]
                  ELSE [out EXCEPT !.triangles =
                            Append(@, <<triangle_indices[1], triangle_indices[2],
                                        triangle_indices[3], TheValue(ParseU32(split[4]))>>)]

\* match arm `4 =>`
ReadTriangle(out, split) ==
    IF \E k \in 1 .. 3 :
           \/ ParseU32(split[k]) = {}
           \/ TheValue(ParseU32(split[k])) >= Len(out.vertices)
    THEN [out EXCEPT !.err = "InvalidTriangle"]
    ELSE LET triangle_indices == [k \in 1 .. 3 |-> TheValue(ParseU32(split[k]))]
             triangle_index_integrity == {triangle_indices[k] : k \in 1 .. 3}
         IN  IF Cardinality(triangle_index_integrity) < 3
             THEN [out EXCEPT !.err = "InvalidTriangle"]
             ELSE IF ParseU32(split[4]) = {}
                     \/ TheValue(ParseU32(split[4])) > Len(out.colors)
                  THEN [out EXCEPT !.err = "InvalidTriangle"]
                  ELSE [out EXCEPT !.triangles =
                            Append(@, <<triangle_indices[1], triangle_indices[2],
                                        triangle_indices[3], TheValue(ParseU32(split[4]))>>)]

\* body of `for line in reader.lines()`: match split.len()
ReadLine(out, split) ==
    CASE Len(split) = 2 -> ReadVertex(out, split)
      [] Len(split) = 3 -> ReadColor(out, split)
      [] Len(split) = 4 -> ReadTriangle(out, split)
      [] OTHER -> [out EXCEPT !.err = "ParseFailure"]

\* the loop over the lines, which `?` and `return Err` leave at the first error
RECURSIVE ReadLines(_, _, _)
ReadLines(out, ls, i) ==
    IF i > Len(ls) \/ out.err # "none" THEN out
    ELSE ReadLines(ReadLine(out, ls[i]), ls, i + 1)

\* Result<PuzzleData, GeometryError>
from_reader(ls) ==
    LET out == ReadLines(EmptyOut, ls, 1)
    IN  IF out.err # "none"
        THEN [tag |-> "Err", err |-> out.err]
        ELSE [tag |-> "Ok",
              data |-> MakeData(Len(out.vertices), out.triangles),
              points |-> out.vertices,
              colors |-> out.colors,
              lower_bounds |-> out.lower_bounds,
              upper_bounds |-> out.upper_bounds]

----------------------------------------------------------------------------
(* PuzzleData::get_vertex_near.  Points, coordinates and thresholds are f32  *)
(* values, kept as whole numbers of hundredths.                              *)

\* (vertex.0 - point.0).hypot(vertex.1 - point.1) <= threshold
WithinHypot(vertex, point, threshold) ==
    LET dx == vertex[1] - point[1]
        dy == vertex[2] - point[2]
    IN  threshold >= 0 /\ dx * dx + dy * dy <= threshold * threshold

\* for (idx, vertex) in vertices.iter().enumerate(), from index idx on
RECURSIVE ScanNear(_, _, _, _)
ScanNear(points, idx, point, threshold) ==
    IF idx >= Len(points) THEN None
    ELSE IF WithinHypot(points[idx + 1], point, threshold) THEN {idx}
    ELSE ScanNear(points, idx + 1, point, threshold)

\* Mutant: the vertex closest to the point is returned, not the first in range.
get_vertex_near_Closest(points, point, threshold) ==
    LET inside == {i \in 0 .. (Len(points) - 1) :
                      WithinHypot(points[i + 1], point, threshold)}
        d2(i)  == (points[i + 1][1] - point[1]) * (points[i + 1][1] - point[1])
                  + (points[i + 1][2] - point[2]) * (points[i + 1][2] - point[2])
    IN  IF inside = {} THEN None
        ELSE {CHOOSE i \in inside : \A j \in inside : d2(i) <= d2(j)}

get_vertex_near(points, point, threshold) == ScanNear(points, 0, point, threshold)

----------------------------------------------------------------------------
(* The per-frame snapshot: InteractiveFeatures and DynamicGraphicsData.      *)

\* InteractiveFeatures::from_data_and_interact_info (0.12 is 12 hundredths)
from_data_and_interact_info(points, last_vertex, curr_pointer) ==
    LET curr_pointer_vert == UNION {get_vertex_near(points, p, 12) : p \in curr_pointer}
    IN  [active_edge |->
             IF last_vertex # None /\ curr_pointer # None
             THEN {<<points[TheValue(last_vertex) + 1], TheValue(curr_pointer)>>}
             ELSE None,
         selected_vertices |-> last_vertex \cup curr_pointer_vert]

\* `for &(start, end) in state.get_connected_edges()`: the set is visited in
\* some order, four coordinates appended per edge
RECURSIVE LineVerticesOf(_, _)
LineVerticesOf(points, edges) ==
    IF edges = {} THEN <<>>
    ELSE LET edge == CHOOSE e \in edges : TRUE
         IN  <<points[edge[1] + 1][1], points[edge[1] + 1][2],
               points[edge[2] + 1][1], points[edge[2] + 1][2]>>
             \o LineVerticesOf(points, edges \ {edge})

\* Mutant: the triangle's index is used as the base, not three times it.
TriangleTriple_NoStride(idx) ==
    LET base == idx % 65536
    IN  <<base, (base + 1) % 65536, (base + 2) % 65536>>

\* let base = idx as u16 * 3; vec![base, base + 1, base + 2] (u16, wrapping)
TriangleTriple(idx) ==
    LET base == ((idx % 65536) * 3) % 65536
    IN  <<base, (base + 1) % 65536, (base + 2) % 65536>>

\* `for &idx in state.get_unlocked_triangles()`, in some order
RECURSIVE TriangleIndicesOf(_)
TriangleIndicesOf(unlocked) ==
    IF unlocked = {} THEN <<>>
    ELSE LET idx == CHOOSE t \in unlocked : TRUE
         IN  TriangleTriple(idx) \o TriangleIndicesOf(unlocked \ {idx})

\* DynamicGraphicsData::from_data_and_state
from_data_and_state(points, s, interactive) ==
    [selected_vertices |-> interactive.selected_vertices,
     triangle_indices  |-> TriangleIndicesOf(s.unlocked_triangles),
     line_vertices     |->
         LineVerticesOf(points, s.connected_edges)
         \o IF interactive.active_edge = None THEN <<>>
            ELSE LET ends == TheValue(interactive.active_edge)
                 IN  <<ends[1][1], ends[1][2], ends[2][1], ends[2][2]>>]

get_dynamic_graphics_data(points, s, last_vertex, curr_pointer) ==
    from_data_and_state(points, s,
        from_data_and_interact_info(points, last_vertex, curr_pointer))

----------------------------------------------------------------------------
\* The meshes a state is built from: triangle lines over NumVertices vertices.
Meshes ==
    { <<>>,
      << <<0, 1, 2, 0>> >>,
      << <<0, 1, 2, 0>>, <<1, 2, 3, 1>> >>,
      << <<2, 0, 1, 0>>, <<3, 1, 0, 0>>, <<0, 3, 2, 0>> >> }

----------------------------------------------------------------------------
(* PuzzleState as a record, and its operations as functions on it *)

St == [triangle_reqs             |-> triangle_reqs,
       unlocked_triangles        |-> unlocked_triangles,
       connected_edges           |-> connected_edges,
       connected_edges_by_vertex |-> connected_edges_by_vertex,
       permanent_edges_by_vertex |-> permanent_edges_by_vertex,
       permanent_edges           |-> permanent_edges,
       permanent_vertices        |-> permanent_vertices]

\* Mutant: the remaining counts start at 2 instead of 3.
from_data_TwoRequired(d) ==
    [triangle_reqs             |-> [t \in 0 .. (num_triangles(d) - 1) |-> 2],
     unlocked_triangles        |-> {},
     connected_edges           |-> {},
     connected_edges_by_vertex |-> EmptyMap,
     permanent_edges_by_vertex |-> EmptyMap,
     permanent_edges           |-> {},
     permanent_vertices        |-> {}]

from_data(d) ==
    [triangle_reqs             |-> [t \in 0 .. (num_triangles(d) - 1) |-> 3],
     unlocked_triangles        |-> {},
     connected_edges           |-> {},
     connected_edges_by_vertex |-> EmptyMap,
     permanent_edges_by_vertex |-> EmptyMap,
     permanent_edges           |-> {},
     permanent_vertices        |-> {}]

\* Mutant: the pair is stored as given.
EdgeOrdered_AsGiven(edge) == edge

\* let edge_ordered = if edge.0 > edge.1 { (edge.1, edge.0) } else { *edge }
EdgeOrdered(edge) == IF edge[1] > edge[2] THEN <<edge[2], edge[1]>> ELSE edge

\* map.entry(v).or_insert(HashSet::new()).insert(e)
InsertByVertex(m, v, e) ==
    IF v \in DOMAIN m THEN [m EXCEPT ![v] = @ \cup {e}] ELSE MapPut(m, v, {e})

\* *map.entry(v).or_insert(0) += 1
IncrementCount(m, v) ==
    IF v \in DOMAIN m THEN [m EXCEPT ![v] = @ + 1] ELSE MapPut(m, v, 1)

\* if permanent_edges_by_vertex[&v] == data.num_edges_from_vertex(v) { insert v }
MarkVertexIfComplete(s, d, v) ==
    IF s.permanent_edges_by_vertex[v] = num_edges_from_vertex(d, v)
    THEN [s EXCEPT !.permanent_vertices = @ \cup {v}]
    ELSE s

\* Mutant: only the edge's first endpoint is tested against its edge count.
MarkEdgePermanent_CheckFirstOnly(s, d, e_perm) ==
    LET s1 == [s EXCEPT
                 !.permanent_edges_by_vertex =
                     IncrementCount(IncrementCount(@, e_perm[1]), e_perm[2]),
                 !.permanent_edges = @ \cup {e_perm}]
    IN  MarkVertexIfComplete(s1, d, e_perm[1])

\* Mutant: the counters are incremented but the edge is not inserted into permanent_edges.
MarkEdgePermanent_CountOnly(s, d, e_perm) ==
    LET s1 == [s EXCEPT
                 !.permanent_edges_by_vertex =
                     IncrementCount(IncrementCount(@, e_perm[1]), e_perm[2])]
    IN  MarkVertexIfComplete(MarkVertexIfComplete(s1, d, e_perm[1]), d, e_perm[2])

\* body of `for e_perm in data.get_edges_for_triangle(triangle)`
MarkEdgePermanent(s, d, e_perm) ==
    LET s1 == [s EXCEPT
                 !.permanent_edges_by_vertex =
                     IncrementCount(IncrementCount(@, e_perm[1]), e_perm[2]),
                 !.permanent_edges = @ \cup {e_perm}]
    IN  MarkVertexIfComplete(MarkVertexIfComplete(s1, d, e_perm[1]), d, e_perm[2])

RECURSIVE MarkEdgesPermanent(_, _, _)
MarkEdgesPermanent(s, d, edges) ==
    IF edges = <<>> THEN s
    ELSE MarkEdgesPermanent(MarkEdgePermanent(s, d, Head(edges)), d, Tail(edges))

\* Mutant: the unlock test is off by one (fires when one edge is still missing).
ConnectTriangle_UnlockEarly(s, d, triangle) ==
    LET s1 == [s EXCEPT !.triangle_reqs[triangle] = @ - 1]
    IN  IF s1.triangle_reqs[triangle] <= 1
        THEN [s1 EXCEPT !.unlocked_triangles = @ \cup {triangle}]
        ELSE s1

\* Mutant: the remaining count is incremented instead of decremented.
ConnectTriangle_Increment(s, d, triangle) ==
    LET s1 == [s EXCEPT !.triangle_reqs[triangle] = @ + 1]
    IN  IF s1.triangle_reqs[triangle] = 0
        THEN MarkEdgesPermanent(
                 [s1 EXCEPT !.unlocked_triangles = @ \cup {triangle}],
                 d, get_edges_for_triangle(d, triangle))
        ELSE s1

\* body of `for &triangle in triangles_with_edge` in connect_edge
ConnectTriangle(s, d, triangle) ==
    LET s1 == [s EXCEPT !.triangle_reqs[triangle] = @ - 1]
    IN  IF s1.triangle_reqs[triangle] = 0
        THEN MarkEdgesPermanent(
                 [s1 EXCEPT !.unlocked_triangles = @ \cup {triangle}],
                 d, get_edges_for_triangle(d, triangle))
        ELSE s1

\* Mutant: only the first triangle of the edge is visited.
ConnectTriangles_FirstOnly(s, d, triangles) ==
    IF triangles = <<>> THEN s
    ELSE ConnectTriangle(s, d, Head(triangles))

RECURSIVE ConnectTriangles(_, _, _)
ConnectTriangles(s, d, triangles) ==
    IF triangles = <<>> THEN s
    ELSE ConnectTriangles(ConnectTriangle(s, d, Head(triangles)), d, Tail(triangles))

\* Mutant: the `if !insert(..) { return }` guard is missing.
connect_edge_NoEarlyReturn(s, d, edge) ==
    LET edge_ordered == EdgeOrdered(edge)
    IN  ConnectTriangles(
            [s EXCEPT
               !.connected_edges = @ \cup {edge_ordered},
               !.connected_edges_by_vertex =
                   InsertByVertex(InsertByVertex(@, edge[1], edge_ordered),
                                  edge[2], edge_ordered)],
            d, triangles_with_edge(d, edge_ordered))

\* Mutant: a pair that is not a mesh edge is ignored instead of recorded.
connect_edge_MeshEdgesOnly(s, d, edge) ==
    LET edge_ordered == EdgeOrdered(edge)
    IN  IF edge_ordered \in s.connected_edges
           \/ edge_ordered \notin DOMAIN d.edge_to_triangles
        THEN s
        ELSE ConnectTriangles(
                 [s EXCEPT
                    !.connected_edges = @ \cup {edge_ordered},
                    !.connected_edges_by_vertex =
                        InsertByVertex(InsertByVertex(@, edge[1], edge_ordered),
                                       edge[2], edge_ordered)],
                 d, triangles_with_edge(d, edge_ordered))

connect_edge(s, d, edge) ==
    LET edge_ordered == EdgeOrdered(edge)
    IN  IF edge_ordered \in s.connected_edges THEN s
        ELSE ConnectTriangles(
                 [s EXCEPT
                    !.connected_edges = @ \cup {edge_ordered},
                    !.connected_edges_by_vertex =
                        InsertByVertex(InsertByVertex(@, edge[1], edge_ordered),
                                       edge[2], edge_ordered)],
                 d, triangles_with_edge(d, edge_ordered))

\* Mutant: the per-vertex set is not updated on disconnect.
RemoveByVertex_Stale(m, v, e) == m

\* map.entry(v).and_modify(|e| { e.remove(&edge); })
RemoveByVertex(m, v, e) ==
    IF v \in DOMAIN m THEN [m EXCEPT ![v] = @ \ {e}] ELSE m

\* Mutant: the remaining count is not given back.
DisconnectTriangle_NoIncrement(s, triangle) ==
    IF s.triangle_reqs[triangle] = 0
    THEN [s EXCEPT !.unlocked_triangles = @ \ {triangle}]
    ELSE s

\* Mutant: the count is incremented before the `== 0` test, which then never fires.
DisconnectTriangle_TestAfterIncrement(s, triangle) ==
    LET s1 == [s EXCEPT !.triangle_reqs[triangle] = @ + 1]
    IN  IF s1.triangle_reqs[triangle] = 0
        THEN [s1 EXCEPT !.unlocked_triangles = @ \ {triangle}]
        ELSE s1

\* body of `for &triangle in triangles_with_edge` in disconnect_edge
DisconnectTriangle(s, triangle) ==
    LET s1 == IF s.triangle_reqs[triangle] = 0
              THEN [s EXCEPT !.unlocked_triangles = @ \ {triangle}]
              ELSE s
    IN  [s1 EXCEPT !.triangle_reqs[triangle] = @ + 1]

RECURSIVE DisconnectTriangles(_, _)
DisconnectTriangles(s, triangles) ==
    IF triangles = <<>> THEN s
    ELSE DisconnectTriangles(DisconnectTriangle(s, Head(triangles)), Tail(triangles))

\* Mutant: the `if !remove(..) { return }` guard is missing.
disconnect_edge_NoEarlyReturn(s, d, edge) ==
    LET edge_ordered == EdgeOrdered(edge)
    IN  DisconnectTriangles(
            [s EXCEPT
               !.connected_edges = @ \ {edge_ordered},
               !.connected_edges_by_vertex =
                   RemoveByVertex(RemoveByVertex(@, edge[1], edge_ordered),
                                  edge[2], edge_ordered)],
            triangles_with_edge(d, edge_ordered))

\* Mutant: disconnecting an edge also retracts its permanence.
disconnect_edge_RetractPermanence(s, d, edge) ==
    LET edge_ordered == EdgeOrdered(edge)
    IN  IF edge_ordered \notin s.connected_edges THEN s
        ELSE DisconnectTriangles(
                 [s EXCEPT
                    !.connected_edges = @ \ {edge_ordered},
                    !.permanent_edges = @ \ {edge_ordered},
                    !.connected_edges_by_vertex =
                        RemoveByVertex(RemoveByVertex(@, edge[1], edge_ordered),
                                       edge[2], edge_ordered)],
                 triangles_with_edge(d, edge_ordered))

\* Mutant: disconnecting an edge also takes its endpoints out of permanent_vertices.
disconnect_edge_RetractVertices(s, d, edge) ==
    LET edge_ordered == EdgeOrdered(edge)
    IN  IF edge_ordered \notin s.connected_edges THEN s
        ELSE DisconnectTriangles(
                 [s EXCEPT
                    !.connected_edges = @ \ {edge_ordered},
                    !.permanent_vertices = @ \ {edge[1], edge[2]},
                    !.connected_edges_by_vertex =
                        RemoveByVertex(RemoveByVertex(@, edge[1], edge_ordered),
                                       edge[2], edge_ordered)],
                 triangles_with_edge(d, edge_ordered))

disconnect_edge(s, d, edge) ==
    LET edge_ordered == EdgeOrdered(edge)
    IN  IF edge_ordered \notin s.connected_edges THEN s
        ELSE DisconnectTriangles(
                 [s EXCEPT
                    !.connected_edges = @ \ {edge_ordered},
                    !.connected_edges_by_vertex =
                        RemoveByVertex(RemoveByVertex(@, edge[1], edge_ordered),
                                       edge[2], edge_ordered)],
                 triangles_with_edge(d, edge_ordered))

\* Indexing a HashMap with a missing key panics: the two lookups that build
\* all_connected_are_permanent are made before anything else.
DisconnectFromVertexPanics(s, vertex) ==
    \/ vertex \notin DOMAIN s.connected_edges_by_vertex
    \/ vertex \notin DOMAIN s.permanent_edges_by_vertex

\* Mutant: the `if permanent_edges.contains(&edge) { continue }` skip is missing.
RECURSIVE DisconnectSnapshot_NoSkip(_, _, _)
DisconnectSnapshot_NoSkip(s, d, edges) ==
    IF edges = {} THEN s
    ELSE LET edge == CHOOSE e \in edges : TRUE
         IN  DisconnectSnapshot_NoSkip(disconnect_edge(s, d, edge), d, edges \ {edge})

\* Mutant: an edge is skipped only when both its endpoints are permanent
\* vertices, instead of when the edge is in permanent_edges.
RECURSIVE DisconnectSnapshot_SkipByVertices(_, _, _)
DisconnectSnapshot_SkipByVertices(s, d, edges) ==
    IF edges = {} THEN s
    ELSE LET edge == CHOOSE e \in edges : TRUE
             s1   == IF {edge[1], edge[2]} \subseteq s.permanent_vertices THEN s
                     ELSE disconnect_edge(s, d, edge)
         IN  DisconnectSnapshot_SkipByVertices(s1, d, edges \ {edge})

\* `for edge in edges.clone()`: the snapshot is visited in some order; the
\* edges still to visit are passed as a set and one is taken at a time.
RECURSIVE DisconnectSnapshot(_, _, _)
DisconnectSnapshot(s, d, edges) ==
    IF edges = {} THEN s
    ELSE LET edge == CHOOSE e \in edges : TRUE
             s1   == IF edge \in s.permanent_edges THEN s
                     ELSE disconnect_edge(s, d, edge)
         IN  DisconnectSnapshot(s1, d, edges \ {edge})

\* Mutant: the snapshot is of every connected edge, not only the vertex's.
disconnect_from_vertex_AllEdges(s, d, vertex) ==
    LET all_connected_are_permanent ==
            Cardinality(s.connected_edges_by_vertex[vertex])
                = s.permanent_edges_by_vertex[vertex]
    IN  IF vertex \in s.permanent_vertices /\ all_connected_are_permanent THEN s
        ELSE DisconnectSnapshot(s, d, s.connected_edges)

\* disconnect_from_vertex when neither lookup panics
disconnect_from_vertex(s, d, vertex) ==
    LET all_connected_are_permanent ==
            Cardinality(s.connected_edges_by_vertex[vertex])
                = s.permanent_edges_by_vertex[vertex]
    IN  IF vertex \in s.permanent_vertices /\ all_connected_are_permanent THEN s
        ELSE DisconnectSnapshot(s, d, s.connected_edges_by_vertex[vertex])

\* unlocked_triangles.len() == triangle_reqs.len()
is_finished(s) == Cardinality(s.unlocked_triangles) = Cardinality(DOMAIN s.triangle_reqs)

----------------------------------------------------------------------------
(* The state machine *)

SetState(s) ==
    /\ triangle_reqs' = s.triangle_reqs
    /\ unlocked_triangles' = s.unlocked_triangles
    /\ connected_edges' = s.connected_edges
    /\ connected_edges_by_vertex' = s.connected_edges_by_vertex
    /\ permanent_edges_by_vertex' = s.permanent_edges_by_vertex
    /\ permanent_edges' = s.permanent_edges
    /\ permanent_vertices' = s.permanent_vertices
    /\ ever_unlocked' = ever_unlocked \cup s.unlocked_triangles

\* `result` while from_reader has not been called on `lines`
NotRun == [tag |-> "NotRun"]

\* The driver before it is set up: nothing queued, pressed, pointed at, drawn
\* or queried.
DriverIdle ==
    /\ event_queue = <<>>
    /\ last_vertex_clicked = None
    /\ curr_pointer_position = None
    /\ dynamic_geometry = NotRun
    /\ near = NotRun

\* last.vertex when the last call took no vertex: an index no vertex has
NoVertex == NumVertices

Init ==
    /\ data \in {MakeData(NumVertices, tris) : tris \in Meshes}
    /\ triangle_reqs = from_data(data).triangle_reqs
    /\ unlocked_triangles = from_data(data).unlocked_triangles
    /\ connected_edges = from_data(data).connected_edges
    /\ connected_edges_by_vertex = from_data(data).connected_edges_by_vertex
    /\ permanent_edges_by_vertex = from_data(data).permanent_edges_by_vertex
    /\ permanent_edges = from_data(data).permanent_edges
    /\ permanent_vertices = from_data(data).permanent_vertices
    /\ panicked = FALSE
    /\ last = [op |-> "from_data", vertex |-> NoVertex]
    /\ ever_unlocked = {}
    /\ lines = <<>>
    /\ result = NotRun
    /\ DriverIdle

WithinCap(s) ==
    \A v \in DOMAIN s.permanent_edges_by_vertex :
        s.permanent_edges_by_vertex[v] <= MaxPermCount

ConnectEdge(edge) ==
    /\ ~panicked
    /\ WithinCap(connect_edge(St, data, edge))
    /\ SetState(connect_edge(St, data, edge))
    /\ last' = [op |-> "connect_edge", vertex |-> NoVertex]
    /\ UNCHANGED <<data, panicked, lines, result, driver>>

DisconnectEdge(edge) ==
    /\ ~panicked
    /\ SetState(disconnect_edge(St, data, edge))
    /\ last' = [op |-> "disconnect_edge", vertex |-> NoVertex]
    /\ UNCHANGED <<data, panicked, lines, result, driver>>

DisconnectFromVertex(vertex) ==
    /\ ~panicked
    /\ IF DisconnectFromVertexPanics(St, vertex)
       THEN /\ panicked' = TRUE
            /\ SetState(St)
       ELSE /\ panicked' = FALSE
            /\ SetState(disconnect_from_vertex(St, data, vertex))
    /\ last' = [op |-> "disconnect_from_vertex", vertex |-> vertex]
    /\ UNCHANGED <<data, lines, result, driver>>

Next ==
    \/ \E edge \in EdgeArgs : ConnectEdge(edge)
    \/ \E edge \in EdgeArgs : DisconnectEdge(edge)
    \/ \E vertex \in Vertices : DisconnectFromVertex(vertex)

Spec == Init /\ [][Next]_vars

\* The same machine under a second name: the laws that compare the results
\* of calls made from one state are checked under it.
SpecLaws == Init /\ [][Next]_vars

----------------------------------------------------------------------------
(* Loading a mesh: run() calls from_reader on the puzzle text and, when it  *)
(* succeeds, from_data on the mesh returned.                                *)

\* Longest puzzle text, in lines.
MaxLines == 4

\* The lines a puzzle text is made of.
LineAlphabet ==
    { <<"0", "0">>,                      \* a vertex
      <<"x", "0">>,                      \* a vertex whose x is no number
      <<"255", "0", "0">>,               \* a color
      <<"256", "0", "0">>,               \* a color whose red is no byte
      <<"0", "1", "2", "0">>,            \* triangles
      <<"2", "1", "0", "0">>,
      <<"0", "1", "2", "1">>,
      <<"0", "1", "1", "0">>,
      <<"x", "1", "2", "0">>,
      <<>>,                              \* a blank line
      <<"0", "1", "2", "0", "0">> }      \* five tokens

ReaderInputs == UNION {[1 .. n -> LineAlphabet] : n \in 0 .. MaxLines}

\* Most triangle lines of a well-formed puzzle text.
MaxTriangles == 3

\* The token that parses to the vertex index v.
TokenOf(v) == CHOOSE tok \in DOMAIN NumberOf : NumberOf[tok] = v

\* Triangle lines over three different vertices, indices ascending or
\* descending, with color index 0.
TriangleLines ==
    { <<TokenOf(a), TokenOf(b), TokenOf(c), "0">> :
          <<a, b, c>> \in {t \in Vertices \X Vertices \X Vertices :
                               \/ t[1] < t[2] /\ t[2] < t[3]
                               \/ t[1] > t[2] /\ t[2] > t[3]} }

\* Well-formed puzzle texts: NumVertices vertex lines, then triangle lines.
MeshInputs ==
    { [i \in 1 .. NumVertices |-> <<"0", "0">>] \o tris :
          tris \in UNION {[1 .. n -> TriangleLines] : n \in 0 .. MaxTriangles} }

\* Before the call there is no mesh: the puzzle variables hold the state of
\* the mesh without vertices until Load replaces them.
Unloaded ==
    /\ result = NotRun
    /\ data = MakeData(0, <<>>)
    /\ triangle_reqs = from_data(data).triangle_reqs
    /\ unlocked_triangles = from_data(data).unlocked_triangles
    /\ connected_edges = from_data(data).connected_edges
    /\ connected_edges_by_vertex = from_data(data).connected_edges_by_vertex
    /\ permanent_edges_by_vertex = from_data(data).permanent_edges_by_vertex
    /\ permanent_edges = from_data(data).permanent_edges
    /\ permanent_vertices = from_data(data).permanent_vertices
    /\ panicked = FALSE
    /\ last = [op |-> "from_data", vertex |-> NoVertex]
    /\ ever_unlocked = {}
    /\ DriverIdle

InitReader == lines \in ReaderInputs \cup MeshInputs /\ Unloaded

Load ==
    /\ result = NotRun
    /\ result' = from_reader(lines)
    /\ IF result'.tag = "Ok"
       THEN /\ data' = result'.data
            /\ SetState(from_data(result'.data))
       ELSE /\ data' = data
            /\ SetState(St)
    /\ UNCHANGED <<panicked, last, lines, driver>>

NextReader == Load

SpecReader == InitReader /\ [][NextReader]_vars

\* The same machine under a second name, for the properties of the adjacency
\* maps of the mesh returned.
SpecAdjacency == InitReader /\ [][NextReader]_vars

----------------------------------------------------------------------------
(* Vertex queries: get_vertex_near called on a loaded mesh.                 *)

\* Most vertex lines of a queried mesh.
MaxNearVertices == 3

\* Vertex lines at (0,0), (1,0) and (0,1).
NearLines == { <<"0", "0">>, <<"1", "0">>, <<"0", "1">> }

NearTexts == UNION {[1 .. n -> NearLines] : n \in 0 .. MaxNearVertices}

\* Query points and thresholds, in hundredths: on a vertex, 0.12 and 0.13
\* away from one, and further off; a negative threshold among them.
ProbePoints == {0, 12, 13, 100} \X {0, 5}

ProbeThresholds == {-1, 0, 12, 13, 100}

InitNear == lines \in NearTexts /\ Unloaded

Probe(point, threshold) ==
    /\ result # NotRun
    /\ result.tag = "Ok"
    /\ near' = [point     |-> point,
                threshold |-> threshold,
                found     |-> get_vertex_near(result.points, point, threshold)]
    /\ UNCHANGED <<data, triangle_reqs, unlocked_triangles, connected_edges,
                   connected_edges_by_vertex, permanent_edges_by_vertex,
                   permanent_edges, permanent_vertices, panicked, last,
                   ever_unlocked, lines, result, event_queue,
                   last_vertex_clicked, curr_pointer_position, dynamic_geometry>>

NextNear ==
    \/ Load
    \/ \E point \in ProbePoints, threshold \in ProbeThresholds : Probe(point, threshold)

SpecNear == InitNear /\ [][NextNear]_vars

----------------------------------------------------------------------------
(* Round trip: a mesh is loaded, edges are connected, snapshots are taken.  *)

\* Puzzle texts: two triangles sharing an edge on a square; one triangle
\* listed twice; three vertices and no triangle.
RoundTripTexts ==
    { << <<"0", "0">>, <<"1", "0">>, <<"0", "1">>, <<"1", "1">>,
         <<"0", "1", "2", "0">>, <<"2", "1", "3", "0">> >>,
      << <<"0", "0">>, <<"1", "0">>, <<"0", "1">>,
         <<"0", "1", "2", "0">>, <<"0", "1", "2", "0">> >>,
      << <<"0", "0">>, <<"1", "0">>, <<"0", "1">> >> }

InitRoundTrip == lines \in RoundTripTexts /\ Unloaded

\* The pairs of distinct vertices of the loaded mesh, in either order.
LoadedEdgeArgs ==
    {e \in (0 .. (data.vertices - 1)) \X (0 .. (data.vertices - 1)) : e[1] # e[2]}

ConnectLoaded(edge) ==
    /\ result # NotRun
    /\ result.tag = "Ok"
    /\ SetState(connect_edge(St, data, edge))
    /\ last' = [op |-> "connect_edge", vertex |-> NoVertex]
    /\ UNCHANGED <<data, panicked, lines, result, driver>>

\* puzzle_data.get_dynamic_graphics_data(&puzzle_state, ..) as run() calls it
Draw ==
    /\ result # NotRun
    /\ result.tag = "Ok"
    /\ dynamic_geometry' =
           get_dynamic_graphics_data(result.points, St, last_vertex_clicked,
                                     curr_pointer_position)
    /\ UNCHANGED <<data, triangle_reqs, unlocked_triangles, connected_edges,
                   connected_edges_by_vertex, permanent_edges_by_vertex,
                   permanent_edges, permanent_vertices, panicked, last,
                   ever_unlocked, lines, result, event_queue,
                   last_vertex_clicked, curr_pointer_position, near>>

NextRoundTrip ==
    \/ Load
    \/ \E edge \in LoadedEdgeArgs : ConnectLoaded(edge)
    \/ Draw

SpecRoundTrip == InitRoundTrip /\ [][NextRoundTrip]_vars

----------------------------------------------------------------------------
(* Properties *)

TriangleIds == DOMAIN triangle_reqs

\* The three canonical (smaller index first) vertex pairs of triangle t.
CanonicalEdges(t) ==
    LET tri == data.triangles[t + 1]
    IN  { <<Min2(tri[p[1]], tri[p[2]]), Max2(tri[p[1]], tri[p[2]])>> :
              p \in {<<1, 2>>, <<2, 3>>, <<1, 3>>} }

Incident(v, e) == e[1] = v \/ e[2] = v

\* C1: for every triangle t, triangle_reqs[t] is 3 minus the number of t's
\* canonical edges that are in connected_edges.
C1_RemainingMatchesConnected ==
    \A t \in TriangleIds :
        triangle_reqs[t] = 3 - Cardinality(CanonicalEdges(t) \cap connected_edges)

\* C1 witness: a disconnect has just given a count back to a triangle that had
\* been unlocked, which now has exactly two of its edges connected.
C1_Witness ==
    /\ last.op \in {"disconnect_edge", "disconnect_from_vertex"}
    /\ ~panicked
    /\ \E t \in TriangleIds :
          /\ triangle_reqs[t] = 1
          /\ CanonicalEdges(t) \subseteq permanent_edges

\* C2: is_finished() is true iff every triangle has all three canonical edges
\* connected (true from the start on the zero-triangle mesh).
C2_FinishedIffAllConnected ==
    is_finished(St) <=> (\A t \in TriangleIds : CanonicalEdges(t) \subseteq connected_edges)

\* C2 witness: a mesh of several triangles has been finished by a connect.
C2_Witness ==
    /\ last.op = "connect_edge"
    /\ Cardinality(TriangleIds) >= 2
    /\ is_finished(St)

\* C3: disconnect_from_vertex(v) never panics, whatever the vertex.
C3_DisconnectFromVertexNeverPanics == ~panicked

\* C4: when disconnect_from_vertex(v) has returned, every edge still connected
\* at v is permanent.
C4_OnlyPermanentLeftAtVertex ==
    (last.op = "disconnect_from_vertex" /\ ~panicked) =>
        \A e \in connected_edges : Incident(last.vertex, e) => e \in permanent_edges

\* C5: the stored permanent-edge count of every vertex (0 if absent) is the
\* number of permanent edges that have the vertex as an endpoint.
C5_PermanentCountIsExact ==
    \A v \in Vertices :
        (IF v \in DOMAIN permanent_edges_by_vertex THEN permanent_edges_by_vertex[v] ELSE 0)
            = Cardinality({e \in permanent_edges : Incident(v, e)})

\* C6: every permanent vertex has all its incident mesh edges (per the mesh's
\* vertex-to-edges index) in permanent_edges.
C6_PermanentVertexAllEdgesPermanent ==
    \A v \in permanent_vertices :
        v \in DOMAIN data.vertices_to_edges
            => data.vertices_to_edges[v] \subseteq permanent_edges

\* C7: no step removes an edge from permanent_edges or a vertex from
\* permanent_vertices.
C7_PermanenceMonotonic ==
    [][/\ permanent_edges \subseteq permanent_edges'
       /\ permanent_vertices \subseteq permanent_vertices']_vars

\* C7 witness: a permanent edge of a permanent vertex has been disconnected
\* and is still permanent.
C7_Witness ==
    /\ last.op = "disconnect_edge"
    /\ \E e \in permanent_edges \ connected_edges :
          e[1] \in permanent_vertices

\* C8: unlocked_triangles is exactly the set of triangles whose remaining
\* count is 0.
C8_UnlockedIffZeroRemaining ==
    unlocked_triangles = {t \in TriangleIds : triangle_reqs[t] = 0}

\* C8 witness: one triangle is unlocked while another, unlocked earlier, has
\* been locked again by a disconnect.
C8_Witness ==
    /\ last.op = "disconnect_edge"
    /\ \E t, u \in TriangleIds :
          /\ t \in unlocked_triangles
          /\ u \notin unlocked_triangles
          /\ CanonicalEdges(u) \subseteq permanent_edges

\* C9: connect_edge(e) called twice in a row gives the state that calling it
\* once gives, in every component.
C9_ConnectIdempotent ==
    \A e \in EdgeArgs :
        connect_edge(connect_edge(St, data, e), data, e) = connect_edge(St, data, e)

\* C9 witness: a connect has just unlocked a triangle, and a repeated call on
\* one of its edges finds the edge connected.
C9_Witness ==
    /\ last.op = "connect_edge"
    /\ \E t \in unlocked_triangles :
          \E e \in CanonicalEdges(t) :
              connect_edge(St, data, e) = St /\ disconnect_edge(St, data, e) # St

\* C10: disconnect_edge(e) called twice in a row gives the state that calling
\* it once gives; no remaining count is incremented twice for one edge.
C10_DisconnectIdempotent ==
    \A e \in EdgeArgs :
        disconnect_edge(disconnect_edge(St, data, e), data, e) = disconnect_edge(St, data, e)

\* C10 witness: a disconnect has just removed a mesh edge that is still
\* permanent, leaving its triangle with a count of 1.
C10_Witness ==
    /\ last.op = "disconnect_edge"
    /\ \E t \in TriangleIds :
          /\ triangle_reqs[t] = 1
          /\ \E e \in CanonicalEdges(t) \ connected_edges :
                disconnect_edge(St, data, e) = St

\* C11: a disconnect_edge call changes none of permanent_edges, the per-vertex
\* permanent counts and permanent_vertices, and every unlocked triangle that
\* loses an edge by it leaves unlocked_triangles with a remaining count of 1.
C11_DisconnectRelocksKeepsPermanence ==
    [][last'.op = "disconnect_edge" =>
         /\ permanent_edges' = permanent_edges
         /\ permanent_edges_by_vertex' = permanent_edges_by_vertex
         /\ permanent_vertices' = permanent_vertices
         /\ \A t \in unlocked_triangles :
               CanonicalEdges(t) \cap (connected_edges \ connected_edges') # {}
                   => t \notin unlocked_triangles' /\ triangle_reqs'[t] = 1]_vars

\* C11 witness: a disconnect_edge has locked again a triangle whose edges and
\* vertices are still marked permanent.
C11_Witness ==
    /\ last.op = "disconnect_edge"
    /\ \E t \in ever_unlocked \ unlocked_triangles :
          /\ triangle_reqs[t] = 1
          /\ CanonicalEdges(t) \subseteq permanent_edges
          /\ \E e \in CanonicalEdges(t) : e[1] \in permanent_vertices

\* The edges currently connected at vertex v.
ConnectedAt(v) == {e \in connected_edges : Incident(v, e)}

\* C12: when vertex v has at least one connected edge and every edge connected
\* at v is permanent, disconnect_from_vertex(v) returns and leaves the whole
\* state unchanged.
C12_AllPermanentAtVertexIsNoOp ==
    \A v \in Vertices :
        (ConnectedAt(v) # {} /\ ConnectedAt(v) \subseteq permanent_edges) =>
            /\ ~DisconnectFromVertexPanics(St, v)
            /\ disconnect_from_vertex(St, data, v) = St

\* C12 witness: disconnect_from_vertex has returned on a vertex of an unlocked
\* triangle that is not a permanent vertex (so the edges were visited), and
\* every edge connected at it is permanent.
C12_Witness ==
    /\ last.op = "disconnect_from_vertex"
    /\ ~panicked
    /\ last.vertex \notin permanent_vertices
    /\ ConnectedAt(last.vertex) # {}
    /\ ConnectedAt(last.vertex) \subseteq permanent_edges
    /\ unlocked_triangles # {}

\* Scenario A: the mesh with the single triangle (0,1,2), and the six orders
\* in which its three edges can be connected.
ScenarioAMesh == << <<0, 1, 2, 0>> >>
ScenarioAEdges == {<<0, 1>>, <<1, 2>>, <<0, 2>>}
ScenarioAOrders ==
    {o \in [1 .. 3 -> ScenarioAEdges] : \A i, j \in 1 .. 3 : i # j => o[i] # o[j]}

\* C13: on the single-triangle mesh (0,1,2), connecting the three edges from
\* the initial state in any of the six orders leaves the triangle locked and
\* is_finished() false after the first and second connect, and makes the
\* triangle unlocked and is_finished() true after the third.
C13_ScenarioAUnlocksAtThird ==
    data.triangles = ScenarioAMesh =>
        \A o \in ScenarioAOrders :
            LET s1 == connect_edge(from_data(data), data, o[1])
                s2 == connect_edge(s1, data, o[2])
                s3 == connect_edge(s2, data, o[3])
            IN  /\ 0 \notin s1.unlocked_triangles /\ ~is_finished(s1)
                /\ 0 \notin s2.unlocked_triangles /\ ~is_finished(s2)
                /\ 0 \in s3.unlocked_triangles /\ is_finished(s3)

\* C13 witness: on that mesh a connect has completed the triangle, unlocked
\* once, with exactly its three edges connected.
C13_Witness ==
    /\ data.triangles = ScenarioAMesh
    /\ last.op = "connect_edge"
    /\ connected_edges = ScenarioAEdges
    /\ unlocked_triangles = {0}
    /\ is_finished(St)
    /\ \A v \in 0 .. 2 : permanent_edges_by_vertex[v] = 2

\* C14: a connect_edge call that connects a new edge e lowers by exactly 1 the
\* remaining count of every triangle that has e among its canonical edges
\* (both triangles of a shared edge) and leaves every other count unchanged.
C14_ConnectDecrementsTrianglesOfEdge ==
    [][(last'.op = "connect_edge" /\ connected_edges' # connected_edges) =>
         \A t \in TriangleIds :
             triangle_reqs'[t] =
                 triangle_reqs[t]
                   - (IF CanonicalEdges(t) \cap (connected_edges' \ connected_edges) # {}
                      THEN 1 ELSE 0)]_vars

\* C14 witness: a connect has drawn, as the only connected edge, an edge shared
\* by two triangles, and both now need 2 more edges.
C14_Witness ==
    /\ last.op = "connect_edge"
    /\ \E e \in connected_edges :
          /\ connected_edges = {e}
          /\ \E t, u \in TriangleIds :
                /\ t # u
                /\ e \in CanonicalEdges(t) \cap CanonicalEdges(u)
                /\ triangle_reqs[t] = 2
                /\ triangle_reqs[u] = 2

\* A canonical pair that is a side of no triangle of the mesh.
NotMeshEdge(e) == \A t \in TriangleIds : e \notin CanonicalEdges(t)

\* connected_edges_by_vertex[v], empty when the key is absent
ConnectedSetOf(m, v) == IF v \in DOMAIN m THEN m[v] ELSE {}

\* C15: connect_edge on a pair of valid vertices that is not a mesh edge adds
\* the canonical pair to connected_edges and to both endpoints' connected
\* sets, and changes no remaining count, nor unlocked_triangles, nor any of
\* the permanence data.
C15_NonMeshEdgeOnlyRecorded ==
    \A e \in EdgeArgs :
        NotMeshEdge(EdgeOrdered(e)) =>
            LET n == connect_edge(St, data, e)
            IN  /\ n.connected_edges = connected_edges \cup {EdgeOrdered(e)}
                /\ \A v \in Vertices :
                      ConnectedSetOf(n.connected_edges_by_vertex, v) =
                          ConnectedSetOf(connected_edges_by_vertex, v)
                            \cup (IF Incident(v, e) THEN {EdgeOrdered(e)} ELSE {})
                /\ n.triangle_reqs = triangle_reqs
                /\ n.unlocked_triangles = unlocked_triangles
                /\ n.permanent_edges = permanent_edges
                /\ n.permanent_edges_by_vertex = permanent_edges_by_vertex
                /\ n.permanent_vertices = permanent_vertices

\* C15 witness: on a mesh with triangles, a connect has left a connected pair
\* that is not a mesh edge, held by both endpoints' sets, next to an unlocked
\* triangle.
C15_Witness ==
    /\ last.op = "connect_edge"
    /\ unlocked_triangles # {}
    /\ \E e \in connected_edges :
          /\ NotMeshEdge(e)
          /\ e \in ConnectedSetOf(connected_edges_by_vertex, e[1])
          /\ e \in ConnectedSetOf(connected_edges_by_vertex, e[2])

\* C16: for every vertex v, connected_edges_by_vertex[v] (empty if absent) is
\* the set of connected edges that have v as an endpoint.
C16_ByVertexInSync ==
    \A v \in Vertices :
        ConnectedSetOf(connected_edges_by_vertex, v) = ConnectedAt(v)

\* C16 witness: after a disconnect, one vertex keeps its key with an empty
\* set while another still has connected edges.
C16_Witness ==
    /\ last.op \in {"disconnect_edge", "disconnect_from_vertex"}
    /\ ~panicked
    /\ \E v \in DOMAIN connected_edges_by_vertex : connected_edges_by_vertex[v] = {}
    /\ \E v \in DOMAIN connected_edges_by_vertex :
          Cardinality(connected_edges_by_vertex[v]) >= 2

\* C17: permanent_edges is exactly the set of canonical edges of the triangles
\* that are unlocked now or were unlocked earlier; in particular every edge of
\* a currently unlocked triangle is permanent.
C17_PermanentIffEverUnlocked ==
    /\ permanent_edges = UNION {CanonicalEdges(t) : t \in ever_unlocked}
    /\ \A t \in unlocked_triangles : CanonicalEdges(t) \subseteq permanent_edges

\* C17 witness: a connect has unlocked one triangle while another, unlocked
\* earlier, is locked again, and some mesh edge is not permanent.
C17_Witness ==
    /\ last.op = "connect_edge"
    /\ unlocked_triangles # {}
    /\ ever_unlocked \ unlocked_triangles # {}
    /\ \E t \in TriangleIds : ~(CanonicalEdges(t) \subseteq permanent_edges)

\* C18: a disconnect_from_vertex call leaves unlocked_triangles as it was; so
\* every step that is a connect_edge or a disconnect_from_vertex (the calls
\* the driver issues) only grows unlocked_triangles and keeps is_finished()
\* true once it is true.
C18_VertexDisconnectNeverRelocks ==
    [][/\ last'.op = "disconnect_from_vertex" =>
              unlocked_triangles' = unlocked_triangles
       /\ last'.op \in {"connect_edge", "disconnect_from_vertex"} =>
              /\ unlocked_triangles \subseteq unlocked_triangles'
              /\ (Cardinality(unlocked_triangles) = Cardinality(DOMAIN triangle_reqs)
                    => Cardinality(unlocked_triangles') = Cardinality(DOMAIN triangle_reqs'))]_vars

\* C18 witness: disconnect_from_vertex has returned on a vertex of an unlocked
\* triangle in a finished puzzle that also has a connected pair off the mesh.
C18_Witness ==
    /\ last.op = "disconnect_from_vertex"
    /\ ~panicked
    /\ TriangleIds # {}
    /\ is_finished(St)
    /\ \E t \in unlocked_triangles : \E e \in CanonicalEdges(t) : Incident(last.vertex, e)
    /\ \E e \in connected_edges : NotMeshEdge(e)

\* C19: a connect_edge call removes no triangle from unlocked_triangles and
\* increases no remaining count.
C19_ConnectNeverRelocks ==
    [][last'.op = "connect_edge" =>
         /\ unlocked_triangles \subseteq unlocked_triangles'
         /\ \A t \in TriangleIds : triangle_reqs'[t] <= triangle_reqs[t]]_vars

\* C19 witness: a connect has been made with one triangle unlocked (and never
\* locked again) and another triangle still needing 2 edges.
C19_Witness ==
    /\ last.op = "connect_edge"
    /\ unlocked_triangles # {}
    /\ ever_unlocked = unlocked_triangles
    /\ \E t \in TriangleIds : triangle_reqs[t] = 2


----------------------------------------------------------------------------
\* The number of vertex lines (two tokens) before line i of the text.
VertexLinesBefore(i) == Cardinality({j \in 1 .. i - 1 : Len(lines[j]) = 2})

\* Line i is a triangle line naming a vertex index that no earlier vertex
\* line defines, or naming three numeric indices that are not all different.
BadTriangleLine(i) ==
    /\ Len(lines[i]) = 4
    /\ \/ \E k \in 1 .. 3 : \E n \in ParseU32(lines[i][k]) : n >= VertexLinesBefore(i)
       \/ /\ \A k \in 1 .. 3 : ParseU32(lines[i][k]) # {}
          /\ \E k, l \in 1 .. 3 :
                 k # l /\ ParseU32(lines[i][k]) = ParseU32(lines[i][l])

\* Line i has a token count other than 2, 3 or 4.
BadTokenCount(i) == Len(lines[i]) \notin {2, 3, 4}

\* The lines before line i are read without error, so line i is read.
LineIsRead(i) == ReadLines(EmptyOut, SubSeq(lines, 1, i - 1), 1).err = "none"

\* C20: once from_reader has returned, a triangle line naming a vertex index
\* not below the number of vertex lines before it, or naming non-distinct
\* indices, means no mesh was returned, and when that line is the one read
\* the error is InvalidTriangle; a line whose token count is not 2, 3 or 4
\* likewise means no mesh, and when read the error is ParseFailure.
C20_BadTriangleOrTokenCountRejected ==
    result # NotRun =>
        \A i \in 1 .. Len(lines) :
            /\ BadTriangleLine(i) \/ BadTokenCount(i) => result.tag = "Err"
            /\ LineIsRead(i) /\ BadTriangleLine(i) =>
                   result = [tag |-> "Err", err |-> "InvalidTriangle"]
            /\ LineIsRead(i) /\ BadTokenCount(i) =>
                   result = [tag |-> "Err", err |-> "ParseFailure"]

\* A triangle line is rejected although a later line defines its vertex.
C20_Witness ==
    /\ result = [tag |-> "Err", err |-> "InvalidTriangle"]
    /\ \E i \in 1 .. Len(lines) :
           /\ LineIsRead(i)
           /\ Len(lines[i]) = 4
           /\ \A k \in 1 .. 3 : \E n \in ParseU32(lines[i][k]) :
                  n < Cardinality({j \in 1 .. Len(lines) : Len(lines[j]) = 2})
           /\ \E k \in 1 .. 3 : \E n \in ParseU32(lines[i][k]) :
                  n >= VertexLinesBefore(i)


----------------------------------------------------------------------------
\* The canonical (smaller index first) pairs of different vertices of the
\* triangle line tri.
PairsOfLine(tri) ==
    { <<Min2(tri[k], tri[l]), Max2(tri[k], tri[l])>> :
          <<k, l>> \in {p \in (1 .. 3) \X (1 .. 3) : tri[p[1]] # tri[p[2]]} }

\* How many times x occurs in the sequence seq.
Occurrences(seq, x) == Cardinality({k \in 1 .. Len(seq) : seq[k] = x})

\* C21: after a successful mesh build, triangle t occurs exactly once in
\* triangles_with_edge(e) when the canonical edge e is one of the edges of
\* get_edges_for_triangle(t) and not at all otherwise; those edges are three
\* different canonical pairs of t's vertices; and num_edges_from_vertex(v) is
\* the number of distinct mesh edges ending at v.
C21_AdjacencyConsistent ==
    result # NotRun /\ result.tag = "Ok" =>
        LET d == result.data
            ids == 0 .. (num_triangles(d) - 1)
            verts == 0 .. (d.vertices - 1)
            canonical == {e \in verts \X verts : e[1] < e[2]}
            edges_of(t) == {get_edges_for_triangle(d, t)[k] : k \in 1 .. 3}
        IN  /\ \A t \in ids :
                /\ Cardinality(edges_of(t)) = 3
                /\ edges_of(t) = PairsOfLine(d.triangles[t + 1])
                /\ \A e \in canonical :
                       Occurrences(triangles_with_edge(d, e), t)
                           = IF e \in edges_of(t) THEN 1 ELSE 0
            /\ \A v \in verts :
                   num_edges_from_vertex(d, v)
                       = Cardinality({e \in canonical :
                             /\ e[1] = v \/ e[2] = v
                             /\ \E t \in ids : e \in PairsOfLine(d.triangles[t + 1])})

\* A mesh was built in which two triangles share an edge, one triangle line
\* lists its vertices in descending order, and a vertex is in no triangle.
C21_Witness ==
    /\ result # NotRun
    /\ result.tag = "Ok"
    /\ \E e \in DOMAIN result.data.edge_to_triangles :
           Len(result.data.edge_to_triangles[e]) = 2
    /\ \E k \in 1 .. Len(result.data.triangles) :
           result.data.triangles[k][1] > result.data.triangles[k][2]
    /\ \E v \in 0 .. (result.data.vertices - 1) :
           num_edges_from_vertex(result.data, v) = 0


----------------------------------------------------------------------------
\* The mesh edges that have v as an endpoint.
MeshEdgesAt(v) == UNION {{e \in CanonicalEdges(t) : Incident(v, e)} : t \in TriangleIds}

\* C24: a vertex with at least one incident mesh edge, all of whose incident
\* mesh edges are permanent, is in permanent_vertices.
C24_AllIncidentPermanentIsMarked ==
    \A v \in Vertices :
        MeshEdgesAt(v) # {} /\ MeshEdgesAt(v) \subseteq permanent_edges
            => v \in permanent_vertices

\* A vertex with three incident mesh edges is marked, its counter having
\* passed the incident-edge count.
C24_Witness ==
    \E v \in permanent_vertices :
        /\ Cardinality(MeshEdgesAt(v)) = 3
        /\ MeshEdgesAt(v) \subseteq permanent_edges
        /\ permanent_edges_by_vertex[v] > 3

\* C25: a disconnect_from_vertex(v) call removes from connected_edges no
\* permanent edge and no edge that does not end at v, adds none, and leaves
\* the permanent edges as they were.
C25_VertexDisconnectFrame ==
    [][last'.op = "disconnect_from_vertex" =>
           /\ connected_edges' \subseteq connected_edges
           /\ \A e \in connected_edges \ connected_edges' :
                  e \notin permanent_edges /\ Incident(last'.vertex, e)
           /\ permanent_edges' = permanent_edges]_vars

\* The call removed an edge at its vertex and kept a permanent edge there and
\* a connected edge elsewhere.
C25_Witness ==
    /\ last.op = "disconnect_from_vertex"
    /\ ~panicked
    /\ last.vertex \in DOMAIN connected_edges_by_vertex
    /\ \E e \in permanent_edges \cap connected_edges : Incident(last.vertex, e)
    /\ \E e \in connected_edges \ permanent_edges : ~Incident(last.vertex, e)
    /\ \E w \in Vertices \ {last.vertex} :
           /\ w \in DOMAIN connected_edges_by_vertex
           /\ connected_edges_by_vertex[w] = {}


----------------------------------------------------------------------------
(* Runs in which disconnect_edge is called only from disconnect_from_vertex, *)
(* as in the driver's release handling (lib.rs).                             *)

NextGestures ==
    \/ \E edge \in EdgeArgs : ConnectEdge(edge)
    \/ \E vertex \in Vertices : DisconnectFromVertex(vertex)

SpecGestures == Init /\ [][NextGestures]_vars

\* C26: when only connect_edge and disconnect_from_vertex are called, every
\* permanent edge is connected.
C26_PermanentEdgesStayConnected == permanent_edges \subseteq connected_edges

\* A disconnect_from_vertex call removed an edge at a vertex that also has a
\* permanent edge.
C26_Witness ==
    /\ last.op = "disconnect_from_vertex"
    /\ ~panicked
    /\ \E e \in permanent_edges : Incident(last.vertex, e)
    /\ \E w \in Vertices \ {last.vertex} :
           /\ w \in DOMAIN connected_edges_by_vertex
           /\ connected_edges_by_vertex[w] = {}


----------------------------------------------------------------------------
\* The pair with its arguments exchanged.
Swapped(edge) == <<edge[2], edge[1]>>

\* C29: from every reachable state connect_edge gives the same state for
\* (a,b) and (b,a), as does disconnect_edge; and every pair stored in
\* connected_edges or permanent_edges has its smaller index first.
C29_ArgumentOrderIrrelevant ==
    /\ \A edge \in EdgeArgs :
           /\ connect_edge(St, data, edge) = connect_edge(St, data, Swapped(edge))
           /\ disconnect_edge(St, data, edge) = disconnect_edge(St, data, Swapped(edge))
    /\ \A e \in connected_edges \cup permanent_edges : e[1] < e[2]

\* Both orders of a pair have been seen to act: an edge is connected and
\* permanent, another was connected and removed again.
C29_Witness ==
    /\ permanent_edges # {}
    /\ connected_edges \ permanent_edges # {}
    /\ \E v \in DOMAIN connected_edges_by_vertex : connected_edges_by_vertex[v] = {}

\* C30: from a reachable state in which e is not connected, connect_edge(e)
\* followed by disconnect_edge(e) restores connected_edges, every remaining
\* count and unlocked_triangles, and each vertex's set of connected edges.
C30_ConnectThenDisconnectRestores ==
    \A edge \in EdgeArgs :
        EdgeOrdered(edge) \notin connected_edges =>
            LET s2 == disconnect_edge(connect_edge(St, data, edge), data, edge)
            IN  /\ s2.connected_edges = connected_edges
                /\ s2.triangle_reqs = triangle_reqs
                /\ s2.unlocked_triangles = unlocked_triangles
                /\ \A v \in Vertices :
                       ConnectedSetOf(s2.connected_edges_by_vertex, v)
                           = ConnectedSetOf(connected_edges_by_vertex, v)

\* Some unconnected edge completes a triangle when connected, so that the pair
\* of calls unlocks the triangle and locks it again.
C30_Witness ==
    \E edge \in EdgeArgs :
        /\ EdgeOrdered(edge) \notin connected_edges
        /\ connect_edge(St, data, edge).unlocked_triangles # unlocked_triangles
        /\ permanent_edges # {}


----------------------------------------------------------------------------
\* The indices of the vertices whose distance to the queried point is at most
\* the queried threshold.
InRange ==
    {i \in 0 .. (Len(result.points) - 1) :
         WithinHypot(result.points[i + 1], near.point, near.threshold)}

\* C23: get_vertex_near answers with the lowest-index vertex whose distance
\* to the point is at most the threshold, and with None exactly when there is
\* no such vertex.
C23_NearIsLowestInRange ==
    near # NotRun =>
        /\ near.found = None <=> InRange = {}
        /\ \A i \in near.found : i \in InRange /\ \A j \in InRange : i <= j
        /\ Cardinality(near.found) <= 1

\* The answer is a vertex at exactly the threshold distance, with a later
\* vertex strictly closer to the point.
C23_Witness ==
    /\ near # NotRun
    /\ \E i \in near.found :
           /\ ~WithinHypot(result.points[i + 1], near.point, near.threshold - 1)
           /\ \E j \in InRange : j > i /\ WithinHypot(result.points[j + 1], near.point, 0)


----------------------------------------------------------------------------
\* The snapshot of the present state with no selected vertex and no pointer.
PlainSnapshot == get_dynamic_graphics_data(result.points, St, None, None)

\* The k-th group of n entries of the sequence seq (k from 0).
Group(seq, k, n) == SubSeq(seq, k * n + 1, k * n + n)

\* The four coordinates of the segment of edge e.
SegmentOf(e) ==
    <<result.points[e[1] + 1][1], result.points[e[1] + 1][2],
      result.points[e[2] + 1][1], result.points[e[2] + 1][2]>>

\* C22: once a mesh is loaded and every edge of every triangle is connected,
\* the snapshot taken with no selected vertex and no pointer holds exactly
\* one index triple (3t, 3t+1, 3t+2) per triangle t and nothing else, and its
\* line data holds exactly one four-coordinate segment per connected edge and
\* nothing else.
C22_RoundTripSnapshot ==
    (/\ result # NotRun
     /\ result.tag = "Ok"
     /\ \A t \in TriangleIds : CanonicalEdges(t) \subseteq connected_edges)
    => LET g == PlainSnapshot
           triples == 0 .. (Cardinality(TriangleIds) - 1)
           segments == 0 .. (Cardinality(connected_edges) - 1)
       IN  /\ Len(g.triangle_indices) = 3 * Cardinality(TriangleIds)
           /\ \A t \in TriangleIds :
                  Cardinality({k \in triples :
                      Group(g.triangle_indices, k, 3) = <<3 * t, 3 * t + 1, 3 * t + 2>>}) = 1
           /\ Len(g.line_vertices) = 4 * Cardinality(connected_edges)
           /\ \A e \in connected_edges :
                  Cardinality({k \in segments :
                      Group(g.line_vertices, k, 4) = SegmentOf(e)}) = 1
           /\ g.selected_vertices = {}

\* The snapshot last drawn is that of a loaded two-triangle mesh with all its
\* triangle edges and one more edge connected.
C22_Witness ==
    /\ result # NotRun
    /\ result.tag = "Ok"
    /\ Cardinality(TriangleIds) = 2
    /\ \A t \in TriangleIds : CanonicalEdges(t) \subseteq connected_edges
    /\ Cardinality(connected_edges) = 6
    /\ dynamic_geometry = PlainSnapshot


----------------------------------------------------------------------------
(* The driver: run() in lib.rs.  The canvas handlers queue pointer events    *)
(* (events/mod.rs); each animation frame drains the queue, dispatches the    *)
(* events and takes a snapshot.                                              *)

\* The puzzle text: the corners of a unit square and one triangle.
DriverText ==
    << <<"0", "0">>, <<"1", "0">>, <<"0", "1">>, <<"1", "1">>,
       <<"0", "1", "2", "0">> >>

\* Most events queued between two frames.
MaxQueue == 3

\* canvas.width(), canvas.height(), in pixels
CanvasWidth == 300
CanvasHeight == 300

\* get_lower_bounds(), get_upper_bounds() of a mesh with a vertex
get_lower_bounds(r) == <<TheValue(r.lower_bounds[1]), TheValue(r.lower_bounds[2])>>
get_upper_bounds(r) == <<TheValue(r.upper_bounds[1]), TheValue(r.upper_bounds[2])>>

\* Graphics::unproject under the view set_bounds gives: the box from
\* lower - 1.0 to upper + 1.0 mapped onto the canvas, y pointing down there
unproject(r, x, y) ==
    LET lower == get_lower_bounds(r)
        upper == get_upper_bounds(r)
        left   == lower[1] - 100
        right  == upper[1] + 100
        bottom == lower[2] - 100
        top    == upper[2] + 100
    IN  <<left + (x * (right - left)) \div CanvasWidth,
          bottom + ((CanvasHeight - y) * (top - bottom)) \div CanvasHeight>>

\* Pixels a press event can carry: over vertex 0 and over vertex 1.
PressSpots == {<<100, 200>>, <<200, 200>>}

\* Pixels a release event can carry: over vertices 1, 2 and 3, and the
\* canvas corner, which is over none.
ReleaseSpots == {<<200, 200>>, <<100, 100>>, <<200, 100>>, <<0, 0>>}

\* Pixels a move event can carry: over vertex 3.
MoveSpots == {<<200, 100>>}

\* What a frame works on: the puzzle state, the two Options, whether a call
\* panicked, and the state-machine calls issued so far.
FrameStart ==
    [s                     |-> St,
     last_vertex_clicked   |-> last_vertex_clicked,
     curr_pointer_position |-> curr_pointer_position,
     panicked              |-> FALSE,
     calls                 |-> <<>>]

\* Mutant: the release reads the pending press without taking it.
ProcessMouseUp_KeepsPress(c, r, d, x, y) ==
    LET maybe_v2 == get_vertex_near(r.points, unproject(r, x, y), 12)
        taken    == c.last_vertex_clicked
    IN  IF taken = None \/ maybe_v2 = None THEN c
        ELSE LET v1 == TheValue(taken)
                 v2 == TheValue(maybe_v2)
             IN  IF v1 = v2
                 THEN IF DisconnectFromVertexPanics(c.s, v1)
                      THEN [c EXCEPT !.panicked = TRUE,
                                     !.calls = Append(@, <<"disconnect_from_vertex", v1>>)]
                      ELSE [c EXCEPT !.s = disconnect_from_vertex(c.s, d, v1),
                                     !.calls = Append(@, <<"disconnect_from_vertex", v1>>)]
                 ELSE [c EXCEPT !.s = connect_edge(c.s, d, <<v1, v2>>),
                                !.calls = Append(@, <<"connect_edge", v1, v2>>)]

\* Event::MouseUp(x, y) => ..
ProcessMouseUp(c, r, d, x, y) ==
    LET maybe_v2 == get_vertex_near(r.points, unproject(r, x, y), 12)
        taken    == c.last_vertex_clicked
        c1       == [c EXCEPT !.last_vertex_clicked = None]
    IN  IF taken = None \/ maybe_v2 = None THEN c1
        ELSE LET v1 == TheValue(taken)
                 v2 == TheValue(maybe_v2)
             IN  IF v1 = v2
                 THEN IF DisconnectFromVertexPanics(c.s, v1)
                      THEN [c1 EXCEPT !.panicked = TRUE,
                                      !.calls = Append(@, <<"disconnect_from_vertex", v1>>)]
                      ELSE [c1 EXCEPT !.s = disconnect_from_vertex(c.s, d, v1),
                                      !.calls = Append(@, <<"disconnect_from_vertex", v1>>)]
                 ELSE [c1 EXCEPT !.s = connect_edge(c.s, d, <<v1, v2>>),
                                 !.calls = Append(@, <<"connect_edge", v1, v2>>)]

\* match event { .. }
ProcessEvent(c, r, d, event) ==
    CASE event[1] = "MouseDown" ->
           [c EXCEPT !.last_vertex_clicked =
                get_vertex_near(r.points, unproject(r, event[2], event[3]), 12)]
      [] event[1] = "MouseMove" ->
           [c EXCEPT !.curr_pointer_position = {unproject(r, event[2], event[3])}]
      [] event[1] = "MouseUp" -> ProcessMouseUp(c, r, d, event[2], event[3])
      [] event[1] = "MouseLeave" ->
           [c EXCEPT !.last_vertex_clicked = None, !.curr_pointer_position = None]

\* for event in h.pending() { .. }: a panic ends the frame where it happens
RECURSIVE ProcessEvents(_, _, _, _)
ProcessEvents(c, r, d, events) ==
    IF events = <<>> \/ c.panicked THEN c
    ELSE ProcessEvents(ProcessEvent(c, r, d, Head(events)), r, d, Tail(events))

\* The state run() has built when it requests the first frame.
InitDriver ==
    /\ lines = DriverText
    /\ result = from_reader(lines)
    /\ data = result.data
    /\ triangle_reqs = from_data(data).triangle_reqs
    /\ unlocked_triangles = from_data(data).unlocked_triangles
    /\ connected_edges = from_data(data).connected_edges
    /\ connected_edges_by_vertex = from_data(data).connected_edges_by_vertex
    /\ permanent_edges_by_vertex = from_data(data).permanent_edges_by_vertex
    /\ permanent_edges = from_data(data).permanent_edges
    /\ permanent_vertices = from_data(data).permanent_vertices
    /\ panicked = FALSE
    /\ last = [op |-> "from_data", vertex |-> NoVertex]
    /\ ever_unlocked = {}
    /\ event_queue = <<>>
    /\ last_vertex_clicked = None
    /\ curr_pointer_position = None
    /\ dynamic_geometry = get_dynamic_graphics_data(result.points, from_data(data), None, None)
    /\ near = NotRun

\* add_event from a canvas handler.  After a panic the handler's
\* try_borrow_mut fails, the frame's borrow never having been released.
AddEvent(event) ==
    /\ ~panicked
    /\ Len(event_queue) < MaxQueue
    /\ event_queue' = Append(event_queue, event)
    /\ UNCHANGED <<data, triangle_reqs, unlocked_triangles, connected_edges,
                   connected_edges_by_vertex, permanent_edges_by_vertex,
                   permanent_edges, permanent_vertices, panicked, last,
                   ever_unlocked, lines, result, last_vertex_clicked,
                   curr_pointer_position, dynamic_geometry, near>>

OnMouseDown(x, y) == AddEvent(<<"MouseDown", x, y>>)
OnMouseMove(x, y) == AddEvent(<<"MouseMove", x, y>>)
OnMouseUp(x, y) == AddEvent(<<"MouseUp", x, y>>)
OnMouseLeave == AddEvent(<<"MouseLeave">>)

\* The frame closure.  A panic leaves what the frame had done so far, takes
\* no snapshot and requests no further frame.
Frame ==
    /\ ~panicked
    /\ IF ~is_finished(St)
       THEN LET c == ProcessEvents(FrameStart, result, data, event_queue)
            IN  /\ event_queue' = <<>>
                /\ SetState(c.s)
                /\ last_vertex_clicked' = c.last_vertex_clicked
                /\ curr_pointer_position' = c.curr_pointer_position
                /\ panicked' = c.panicked
                /\ dynamic_geometry' =
                       IF c.panicked THEN dynamic_geometry
                       ELSE get_dynamic_graphics_data(result.points, c.s,
                                c.last_vertex_clicked, c.curr_pointer_position)
       ELSE /\ event_queue' = event_queue
            /\ SetState(St)
            /\ last_vertex_clicked' = None
            /\ curr_pointer_position' = None
            /\ panicked' = FALSE
            /\ dynamic_geometry' = get_dynamic_graphics_data(result.points, St, None, None)
    /\ last' = [op |-> "frame", vertex |-> NoVertex]
    /\ UNCHANGED <<data, lines, result, near>>

NextDriver ==
    \/ \E p \in PressSpots : OnMouseDown(p[1], p[2])
    \/ \E p \in MoveSpots : OnMouseMove(p[1], p[2])
    \/ \E p \in ReleaseSpots : OnMouseUp(p[1], p[2])
    \/ OnMouseLeave
    \/ Frame

SpecDriver == InitDriver /\ [][NextDriver]_vars


----------------------------------------------------------------------------
\* A step of the frame closure: the queue does not grow.
FrameStep == ~panicked /\ Len(event_queue') <= Len(event_queue)

\* What the frame has done once the first n pending events are dispatched.
AfterEvents(n) == ProcessEvents(FrameStart, result, data, SubSeq(event_queue, 1, n))

\* C27: the driver changes the puzzle only while it is unfinished.  No step
\* changes a finished puzzle; a frame that starts on a finished puzzle clears
\* the vertex selection and the pointer position; and within a frame, once
\* the puzzle is finished, dispatching a further event leaves it as it is.
C27_NoMutationOnceFinished ==
    [][/\ is_finished(St) => St' = St
       /\ FrameStep /\ is_finished(St) =>
              last_vertex_clicked' = None /\ curr_pointer_position' = None
       /\ FrameStep /\ ~is_finished(St) =>
              \A n \in 1 .. Len(event_queue) :
                  is_finished(AfterEvents(n - 1).s) =>
                      AfterEvents(n).s = AfterEvents(n - 1).s]_vars

\* The vertex a pointer event is over, if any.
Target(event) ==
    get_vertex_near(result.points, unproject(result, event[2], event[3]), 12)

\* The calls a sequence of events asks for, and the press left pending, when
\* `pending` is the press pending before it: a press over a vertex becomes
\* the pending press (a press over none leaves none pending), a release
\* consumes it, a leave drops it, and a release over a vertex issues a call
\* exactly when a press is pending.
RECURSIVE Gesture(_, _, _)
Gesture(pending, events, calls) ==
    IF events = <<>> THEN [pending |-> pending, calls |-> calls]
    ELSE LET event == Head(events)
             rest  == Tail(events)
         IN  CASE event[1] = "MouseDown" -> Gesture(Target(event), rest, calls)
               [] event[1] = "MouseMove" -> Gesture(pending, rest, calls)
               [] event[1] = "MouseLeave" -> Gesture(None, rest, calls)
               [] event[1] = "MouseUp" ->
                    IF pending = None \/ Target(event) = None
                    THEN Gesture(None, rest, calls)
                    ELSE Gesture(None, rest,
                             Append(calls, <<TheValue(pending), TheValue(Target(event))>>))

\* The puzzle after the calls: connect_edge(v1, v2) for a pair of different
\* vertices, disconnect_from_vertex(v1) for a pair of equal ones; a call that
\* panics ends the sequence.
RECURSIVE ApplyCalls(_, _)
ApplyCalls(s, calls) ==
    IF calls = <<>> THEN [s |-> s, panicked |-> FALSE]
    ELSE LET v1 == Head(calls)[1]
             v2 == Head(calls)[2]
         IN  IF v1 # v2 THEN ApplyCalls(connect_edge(s, data, <<v1, v2>>), Tail(calls))
             ELSE IF DisconnectFromVertexPanics(s, v1) THEN [s |-> s, panicked |-> TRUE]
             ELSE ApplyCalls(disconnect_from_vertex(s, data, v1), Tail(calls))

\* C28: a frame that starts on an unfinished puzzle issues, for the events
\* pending, exactly the calls of the gestures in them: a release over v2
\* with a press over v1 pending calls connect_edge(v1, v2) when v1 # v2 and
\* disconnect_from_vertex(v1) when v1 = v2; a release with no press pending,
\* or after a leave, calls nothing; and a press serves one release at most.
C28_ReleaseDispatch ==
    [][FrameStep /\ ~is_finished(St) =>
           LET g == Gesture(last_vertex_clicked, event_queue, <<>>)
               r == ApplyCalls(St, g.calls)
           IN  /\ St' = r.s
               /\ panicked' = r.panicked
               /\ ~r.panicked => last_vertex_clicked' = g.pending]_vars

\* A release over another vertex has connected an edge, and a release over
\* the pressed vertex itself has called disconnect_from_vertex, which
\* panicked.
C28_Witness ==
    /\ panicked
    /\ connected_edges # {}
    /\ last_vertex_clicked = None
    /\ last.op = "frame"


----------------------------------------------------------------------------
(* Color indices: from_reader on puzzle texts of three vertex lines followed *)
(* by color lines and triangle lines in any order.                           *)

\* Most lines after the vertex lines.
MaxColorLines == 3

\* The vertex lines every such text starts with.
ColorVertexLines == << <<"0", "0">>, <<"1", "0">>, <<"0", "1">> >>

\* The lines that follow: a color, a color whose red is no byte, and the
\* triangle 0 1 2 with each color index from 0 to 3.
ColorLines ==
    { <<"255", "0", "0">>, <<"256", "0", "0">> }
        \cup { <<"0", "1", "2", TokenOf(c)>> : c \in 0 .. 3 }

ColorTexts ==
    { ColorVertexLines \o rest :
          rest \in UNION {[1 .. n -> ColorLines] : n \in 0 .. MaxColorLines} }

InitColors == lines \in ColorTexts /\ Unloaded

NextColors == Load

SpecColors == InitColors /\ [][NextColors]_vars

\* The color lines before line i.
ColorLinesBefore(i) == Cardinality({j \in 1 .. i - 1 : Len(lines[j]) = 3})

\* The triangle lines before line i.
TriangleLinesBefore(i) == Cardinality({j \in 1 .. i - 1 : Len(lines[j]) = 4})

\* The lines up to and including line i are read without error.
LineIsAccepted(i) == ReadLines(EmptyOut, SubSeq(lines, 1, i), 1).err = "none"

\* C31: once from_reader has returned, a triangle line that is read with a
\* color index at most the number of color lines read before it is accepted
\* and its triangle is recorded with that index, an index equal to that
\* number included; with a greater index the line is rejected and
\* from_reader returns InvalidTriangle.
C31_ColorIndexAtMostCount ==
    result # NotRun =>
        \A i \in 1 .. Len(lines) :
            LineIsRead(i) /\ Len(lines[i]) = 4 =>
                LET color_idx == TheValue(ParseU32(lines[i][4]))
                    recorded  ==
                        ReadLines(EmptyOut, SubSeq(lines, 1, i), 1).triangles
                IN  IF color_idx <= ColorLinesBefore(i)
                    THEN /\ LineIsAccepted(i)
                         /\ Len(recorded) = TriangleLinesBefore(i) + 1
                         /\ recorded[Len(recorded)][4] = color_idx
                         /\ result.tag = "Ok" =>
                                result.data.triangles[Len(recorded)][4] = color_idx
                    ELSE result = [tag |-> "Err", err |-> "InvalidTriangle"]

\* A mesh is returned whose text has a triangle line with a color index
\* equal to the number of color lines before it, one at least.
C31_Witness ==
    /\ result # NotRun
    /\ result.tag = "Ok"
    /\ \E i \in 1 .. Len(lines) :
           /\ Len(lines[i]) = 4
           /\ ColorLinesBefore(i) >= 1
           /\ TheValue(ParseU32(lines[i][4])) = ColorLinesBefore(i)
           /\ result.data.triangles[TriangleLinesBefore(i) + 1][4] = ColorLinesBefore(i)

====
